---- MODULE Spec2Model ----
(***************************************************************************)
(* Model of internal/lambda/scripts/run.py: the AWS Lambda entry point     *)
(* main(event, context) that runs ./memorybox as a child process, feeds    *)
(* it event["stdin"], and returns its exit code and its gzip+base64        *)
(* encoded standard output and standard error.                             *)
(*                                                                         *)
(* The state is one invocation of main together with the child process    *)
(* and the three pipes that connect them.  main advances through the      *)
(* lines of the function (variable pc); the child reads its input, writes *)
(* its planned output into pipes of bounded capacity, and exits.          *)
(***************************************************************************)
EXTENDS Integers, Sequences, FiniteSets

\* ------------------------------------------------------------------ bounds
PipeCap == 1        \* capacity of one pipe buffer, in bytes
MaxArgs == 2        \* longest event["args"]
MaxStdin == 1       \* longest event["stdin"], in characters

MaxOut == PipeCap + 1      \* the child's longest output: one more than a pipe holds

\* ------------------------------------------------------------ value domains
OutByte == {1, 2}                    \* bytes the child writes to standard output
ErrByte == {2}                       \* bytes the child writes to standard error
ArgStr == {"a", "b"}                 \* strings found in event["args"]
Configs == {"c1", "c2"}              \* values of event["config"]
CodePoints == {65, 233, 8364, 55296} \* 'A', e-acute, euro sign, a lone surrogate
ExitCodes == {0, 1, 137}             \* exit statuses of the child
Mtimes == {0, 1}                     \* clock readings stamped into a gzip header
OsEnviron == {<<"PATH", "/usr/bin">>, <<"AWS_SECRET_ACCESS_KEY", "k">>}

SeqsUpTo(S, n) == UNION {[1..k -> S] : k \in 0..n}

\* ---------------------------------------------------------- pure functions
\* s[1:] of Python: everything but the first element, [] for an empty list
Slice1(s) == IF Len(s) <= 1 THEN <<>> ELSE SubSeq(s, 2, Len(s))

RECURSIVE Sum(_)
Sum(s) == IF s = <<>> THEN 0 ELSE Head(s) + Sum(Tail(s))

\* str.encode(): UTF-8.  A surrogate code point has no encoding.
IsSurrogate(c) == c >= 55296 /\ c <= 57343

Encodable(s) == \A i \in 1..Len(s) : ~IsSurrogate(s[i])

Utf8Latin1(c) == <<c % 256>>

Utf8Char(c) ==
    IF c < 128 THEN <<c>>
    ELSE IF c < 2048 THEN <<192 + (c \div 64), 128 + (c % 64)>>
    ELSE IF c < 65536
         THEN <<224 + (c \div 4096), 128 + ((c \div 64) % 64), 128 + (c % 64)>>
    ELSE <<240 + (c \div 262144), 128 + ((c \div 4096) % 64),
           128 + ((c \div 64) % 64), 128 + (c % 64)>>

RECURSIVE Encode(_)
Encode(s) == IF s = <<>> THEN <<>> ELSE Utf8Char(Head(s)) \o Encode(Tail(s))

\* gzip.compress(data): a ten byte header (magic 31 139, method 8, flags 0,
\* four bytes of modification time, XFL 2, OS 255), the deflate stream, and
\* an eight byte trailer (checksum of the data, length of the data).  The
\* deflate stream is modelled as one stored block (final-block marker, LEN,
\* NLEN, the literal bytes) and the CRC-32 as the byte sum modulo 256.
Checksum(data) == Sum(data) % 256

Gzip(data, mtime) ==
    <<31, 139, 8, 0, mtime % 256, 0, 0, 0, 2, 255>>
    \o <<1, Len(data) % 256, 0, 255 - (Len(data) % 256), 255>>
    \o data
    \o <<Checksum(data), 0, 0, 0>>
    \o <<Len(data) % 256, 0, 0, 0>>

\* base64.b64encode: three bytes become four 6-bit digits; a final group of
\* one or two bytes is padded with '=' (digit 64 here).
B64Pad == 64

B64Group(g) ==
    LET n == Len(g)
        b1 == g[1]
        b2 == IF n >= 2 THEN g[2] ELSE 0
        b3 == IF n >= 3 THEN g[3] ELSE 0
    IN  << b1 \div 4,
           (b1 % 4) * 16 + (b2 \div 16),
           IF n >= 2 THEN (b2 % 16) * 4 + (b3 \div 64) ELSE B64Pad,
           IF n >= 3 THEN b3 % 64 ELSE B64Pad >>

RECURSIVE B64Encode(_)
B64Encode(bytes) ==
    IF bytes = <<>> THEN <<>>
    ELSE IF Len(bytes) <= 3 THEN B64Group(bytes)
    ELSE B64Group(SubSeq(bytes, 1, 3)) \o B64Encode(SubSeq(bytes, 4, Len(bytes)))

\* str(base64.b64encode(gzip.compress(data)).decode()): the digits as text
EncodeOutput(data, mtime) == B64Encode(Gzip(data, mtime))

\* ------------------------------------------------------------------- state
VARIABLES
    event,        \* the argument of main: a mapping with keys among args, config, stdin
    pc,           \* the line main is at
    exc,          \* the exception that left main, "" when none
    mb,           \* the Popen object: which of its pipe ends are open; <<>> before Popen
    returncode,   \* mb.returncode: <<>> (None) until the child is reaped, then <<status>>
    input,        \* communicate(): the bytes of the input not yet written
    outChunks,    \* communicate(): what it has read from mb.stdout
    errChunks,    \* communicate(): what it has read from mb.stderr
    stdout,       \* the local variable stdout of main
    stderr,       \* the local variable stderr of main
    result,       \* the value main returned: <<>> when none, else <<record>>
    childState,   \* "none", "running", "zombie" (exited, not waited for), "reaped"
    childArgv,    \* the argument vector the child was started with
    childEnv,     \* the environment the child was started with
    childReads,   \* whether this child reads its standard input to the end
    childIn,      \* the bytes the child has read from its standard input
    childEOF,     \* the child has seen end-of-input
    outData,      \* the bytes the child is going to write to standard output
    errData,      \* the bytes the child is going to write to standard error
    outPos,       \* how many bytes of outData the child has written
    errPos,       \* how many bytes of errData the child has written
    exitStatus,   \* the status the child exited with: <<>> while it runs
    pipeIn,       \* the pipe buffer parent -> child standard input
    pipeOut,      \* the pipe buffer child standard output -> parent
    pipeErr,      \* the pipe buffer child standard error -> parent
    sent,         \* history: every byte the adapter wrote into pipeIn
    spawned,      \* history: the number of processes started
    faults        \* history: the infrastructure failures that occurred

vars == <<event, pc, exc, mb, returncode, input, outChunks, errChunks, stdout,
          stderr, result, childState, childArgv, childEnv, childReads, childIn,
          childEOF, outData, errData, outPos, errPos, exitStatus, pipeIn,
          pipeOut, pipeErr, sent, spawned, faults>>

mainVars == <<pc, exc, mb, returncode, input, outChunks, errChunks, stdout,
              stderr, result>>

childVars == <<childState, childIn, childEOF, outPos, errPos, exitStatus>>

launchVars == <<childArgv, childEnv, spawned>>

planVars == <<event, childReads, outData, errData>>

\* ------------------------------------------------------------------ events
Strs == SeqsUpTo(CodePoints, MaxStdin)

ArgLists == SeqsUpTo(ArgStr, MaxArgs)

\* events that vary the command line and the configuration
LaunchEvents ==
    [args : ArgLists, config : Configs]
    \cup [args : ArgLists, config : Configs, stdin : {<<65>>}]

\* events that vary the input text
InputEvents == [args : {<<"a", "b">>}, config : {"c1"}, stdin : Strs]

\* events that lack a required key
BadEvents ==
    [config : Configs] \cup [args : {<<"a">>}] \cup [args : {<<"a">>}, stdin : {<<65>>}]

Outputs == SeqsUpTo(OutByte, MaxOut)

ErrOutputs == SeqsUpTo(ErrByte, MaxOut)

Init ==
    /\ \/ /\ event \in LaunchEvents \cup BadEvents
          /\ outData \in {<<>>, <<1>>}
          /\ errData \in {<<>>, <<2>>}
          /\ childReads = TRUE
       \/ /\ event \in InputEvents \cup [args : {<<"a", "b">>}, config : {"c1"}]
          /\ outData \in Outputs
          /\ errData \in ErrOutputs
          /\ childReads \in BOOLEAN
    /\ pc = "Popen"
    /\ exc = ""
    /\ mb = <<>>
    /\ returncode = <<>>
    /\ input = <<>>
    /\ outChunks = <<>>
    /\ errChunks = <<>>
    /\ stdout = <<>>
    /\ stderr = <<>>
    /\ result = <<>>
    /\ childState = "none"
    /\ childArgv = <<>>
    /\ childEnv = {}
    /\ childIn = <<>>
    /\ childEOF = FALSE
    /\ outPos = 0
    /\ errPos = 0
    /\ exitStatus = <<>>
    /\ pipeIn = <<>>
    /\ pipeOut = <<>>
    /\ pipeErr = <<>>
    /\ sent = <<>>
    /\ spawned = 0
    /\ faults = {}

\* ------------------------------------------------------------ main: Popen
\* ["./memorybox"] + event['args'][1:]
ArgvFull(e) == <<"./memorybox">> \o e.args

ArgvOf(e) == <<"./memorybox">> \o Slice1(e.args)

\* env={"MEMORYBOX_LAMBDA_MODE": "true", "MEMORYBOX_CONFIG": event['config']}
EnvInherited(e) ==
    OsEnviron \cup {<<"MEMORYBOX_LAMBDA_MODE", "true">>, <<"MEMORYBOX_CONFIG", e.config>>}

EnvOf(e) == {<<"MEMORYBOX_LAMBDA_MODE", "true">>, <<"MEMORYBOX_CONFIG", e.config>>}

Raise(name) ==
    /\ pc' = "raised"
    /\ exc' = name
    /\ faults' = faults \cup {name}

\* event['args'] or event['config'] is missing: the subscript raises before
\* any process is started
PopenKeyError ==
    /\ pc = "Popen"
    /\ ~({"args", "config"} \subseteq DOMAIN event)
    /\ Raise("KeyError")
    /\ UNCHANGED <<mb, returncode, input, outChunks, errChunks, stdout, stderr, result>>
    /\ UNCHANGED <<childVars, launchVars, planVars, pipeIn, pipeOut, pipeErr, sent>>

\* the process cannot be started (no such binary, fork fails)
PopenOSError ==
    /\ pc = "Popen"
    /\ {"args", "config"} \subseteq DOMAIN event
    /\ Raise("FileNotFoundError")
    /\ UNCHANGED <<mb, returncode, input, outChunks, errChunks, stdout, stderr, result>>
    /\ UNCHANGED <<childVars, launchVars, planVars, pipeIn, pipeOut, pipeErr, sent>>

Popen ==
    /\ pc = "Popen"
    /\ {"args", "config"} \subseteq DOMAIN event
    /\ childState' = "running"
    /\ childArgv' = ArgvOf(event)
    /\ childEnv' = EnvOf(event)
    /\ spawned' = spawned + 1
    /\ mb' = [stdin |-> TRUE, stdout |-> TRUE, stderr |-> TRUE]
    /\ pc' = "branch"
    /\ UNCHANGED <<exc, returncode, input, outChunks, errChunks, stdout, stderr, result>>
    /\ UNCHANGED <<childIn, childEOF, outPos, errPos, exitStatus>>
    /\ UNCHANGED <<planVars, pipeIn, pipeOut, pipeErr, sent, faults>>

\* -------------------------------------- main: the branch on "stdin" in event
Min(a, b) == IF a < b THEN a ELSE b

CloseEnd(m, end) == [m EXCEPT ![end] = FALSE]

\* event["stdin"].encode() raises: the string holds a lone surrogate
EncodeError ==
    /\ pc = "branch"
    /\ "stdin" \in DOMAIN event
    /\ ~Encodable(event.stdin)
    /\ Raise("UnicodeEncodeError")
    /\ UNCHANGED <<mb, returncode, input, outChunks, errChunks, stdout, stderr, result>>
    /\ UNCHANGED <<childVars, launchVars, planVars, pipeIn, pipeOut, pipeErr, sent>>

\* mb.communicate(event["stdin"].encode()) begins: with nothing to write it
\* closes mb.stdin at once
CommunicateStart ==
    /\ pc = "branch"
    /\ "stdin" \in DOMAIN event
    /\ Encodable(event.stdin)
    /\ input' = Encode(event.stdin)
    /\ mb' = IF input' = <<>> THEN CloseEnd(mb, "stdin") ELSE mb
    /\ outChunks' = <<>>
    /\ errChunks' = <<>>
    /\ pc' = "communicate"
    /\ UNCHANGED <<exc, returncode, stdout, stderr, result>>
    /\ UNCHANGED <<childVars, launchVars, planVars, pipeIn, pipeOut, pipeErr, sent, faults>>

\* communicate(): mb.stdin is writable; write what fits and close when done
CommWrite ==
    /\ pc = "communicate"
    /\ mb.stdin
    /\ input # <<>>
    /\ childState = "running"
    /\ Len(pipeIn) < PipeCap
    /\ LET n == Min(PipeCap - Len(pipeIn), Len(input))
       IN  /\ pipeIn' = pipeIn \o SubSeq(input, 1, n)
           /\ sent' = sent \o SubSeq(input, 1, n)
           /\ input' = SubSeq(input, n + 1, Len(input))
    /\ mb' = IF input' = <<>> THEN CloseEnd(mb, "stdin") ELSE mb
    /\ UNCHANGED <<pc, exc, returncode, outChunks, errChunks, stdout, stderr, result>>
    /\ UNCHANGED <<childVars, launchVars, planVars, pipeOut, pipeErr, faults>>

\* communicate(): the child is gone, the write raises BrokenPipeError, which
\* communicate() catches: it closes mb.stdin and goes on
CommBrokenPipe ==
    /\ pc = "communicate"
    /\ mb.stdin
    /\ input # <<>>
    /\ childState # "running"
    /\ mb' = CloseEnd(mb, "stdin")
    /\ faults' = faults \cup {"BrokenPipeError"}
    /\ UNCHANGED <<pc, exc, returncode, input, outChunks, errChunks, stdout, stderr, result>>
    /\ UNCHANGED <<childVars, launchVars, planVars, pipeIn, pipeOut, pipeErr, sent>>

\* communicate(): mb.stdout is readable: take the data, or close it at end-of-file
CommReadStdout ==
    /\ pc = "communicate"
    /\ mb.stdout
    /\ \/ /\ pipeOut # <<>>
          /\ outChunks' = outChunks \o pipeOut
          /\ pipeOut' = <<>>
          /\ mb' = mb
       \/ /\ pipeOut = <<>>
          /\ childState # "running"
          /\ mb' = CloseEnd(mb, "stdout")
          /\ UNCHANGED <<outChunks, pipeOut>>
    /\ UNCHANGED <<pc, exc, returncode, input, errChunks, stdout, stderr, result>>
    /\ UNCHANGED <<childVars, launchVars, planVars, pipeIn, pipeErr, sent, faults>>

\* communicate(): mb.stderr is readable
CommReadStderr ==
    /\ pc = "communicate"
    /\ mb.stderr
    /\ \/ /\ pipeErr # <<>>
          /\ errChunks' = errChunks \o pipeErr
          /\ pipeErr' = <<>>
          /\ mb' = mb
       \/ /\ pipeErr = <<>>
          /\ childState # "running"
          /\ mb' = CloseEnd(mb, "stderr")
          /\ UNCHANGED <<errChunks, pipeErr>>
    /\ UNCHANGED <<pc, exc, returncode, input, outChunks, stdout, stderr, result>>
    /\ UNCHANGED <<childVars, launchVars, planVars, pipeIn, pipeOut, sent, faults>>

\* communicate(): a read of mb.stdout or mb.stderr fails; nothing catches it
CommReadError ==
    /\ pc = "communicate"
    /\ mb.stdout \/ mb.stderr
    /\ Raise("OSError")
    /\ UNCHANGED <<mb, returncode, input, outChunks, errChunks, stdout, stderr, result>>
    /\ UNCHANGED <<childVars, launchVars, planVars, pipeIn, pipeOut, pipeErr, sent>>

\* communicate() ends: every pipe is closed, it waits for the child and
\* returns (stdout data, stderr data), which line 12 unpacks as
\* "stderr, stdout = ..."
CommWaitNoReap ==
    /\ pc = "communicate"
    /\ ~mb.stdin /\ ~mb.stdout /\ ~mb.stderr
    /\ childState = "zombie"
    /\ returncode' = exitStatus
    /\ stderr' = outChunks
    /\ stdout' = errChunks
    /\ pc' = "return"
    /\ UNCHANGED <<exc, mb, input, outChunks, errChunks, result>>
    /\ UNCHANGED <<childVars, launchVars, planVars, pipeIn, pipeOut, pipeErr, sent, faults>>

CommWait ==
    /\ pc = "communicate"
    /\ ~mb.stdin /\ ~mb.stdout /\ ~mb.stderr
    /\ childState = "zombie"
    /\ childState' = "reaped"
    /\ returncode' = exitStatus
    /\ LET returned == <<outChunks, errChunks>>
       IN  /\ stderr' = returned[1]
           /\ stdout' = returned[2]
    /\ pc' = "return"
    /\ UNCHANGED <<exc, mb, input, outChunks, errChunks, result>>
    /\ UNCHANGED <<childIn, childEOF, outPos, errPos, exitStatus>>
    /\ UNCHANGED <<launchVars, planVars, pipeIn, pipeOut, pipeErr, sent, faults>>

\* mb.stdin.close()
CloseStdin ==
    /\ pc = "branch"
    /\ "stdin" \notin DOMAIN event
    /\ mb' = CloseEnd(mb, "stdin")
    /\ pc' = "wait"
    /\ UNCHANGED <<exc, returncode, input, outChunks, errChunks, stdout, stderr, result>>
    /\ UNCHANGED <<childVars, launchVars, planVars, pipeIn, pipeOut, pipeErr, sent, faults>>

\* mb.wait(): blocks until the child has exited, then collects its status
Wait ==
    /\ pc = "wait"
    /\ childState = "zombie"
    /\ childState' = "reaped"
    /\ returncode' = exitStatus
    /\ pc' = "readStdout"
    /\ UNCHANGED <<exc, mb, input, outChunks, errChunks, stdout, stderr, result>>
    /\ UNCHANGED <<childIn, childEOF, outPos, errPos, exitStatus>>
    /\ UNCHANGED <<launchVars, planVars, pipeIn, pipeOut, pipeErr, sent, faults>>

\* stdout = mb.stdout.read(): everything up to end-of-file; the child has
\* exited, so that is what the pipe holds
ReadStdout ==
    /\ pc = "readStdout"
    /\ stdout' = pipeOut
    /\ pipeOut' = <<>>
    /\ pc' = "readStderr"
    /\ UNCHANGED <<exc, mb, returncode, input, outChunks, errChunks, stderr, result>>
    /\ UNCHANGED <<childVars, launchVars, planVars, pipeIn, pipeErr, sent, faults>>

\* stderr = mb.stderr.read()
ReadStderr ==
    /\ pc = "readStderr"
    /\ stderr' = pipeErr
    /\ pipeErr' = <<>>
    /\ pc' = "return"
    /\ UNCHANGED <<exc, mb, returncode, input, outChunks, errChunks, stdout, result>>
    /\ UNCHANGED <<childVars, launchVars, planVars, pipeIn, pipeOut, sent, faults>>

\* one of the two read() calls fails; nothing catches it
ReadError ==
    /\ pc \in {"readStdout", "readStderr"}
    /\ Raise("OSError")
    /\ UNCHANGED <<mb, returncode, input, outChunks, errChunks, stdout, stderr, result>>
    /\ UNCHANGED <<childVars, launchVars, planVars, pipeIn, pipeOut, pipeErr, sent>>

\* ----------------------------------------------------------- main: return
ResultCodeZero(rc, so, se, m1, m2) ==
    [code |-> 0, stdout |-> EncodeOutput(so, m1), stderr |-> EncodeOutput(se, m2)]

ResultNoStderr(rc, so, se, m1, m2) ==
    [code |-> rc, stdout |-> EncodeOutput(so, m1)]

ResultOf(rc, so, se, m1, m2) ==
    [code |-> rc, stdout |-> EncodeOutput(so, m1), stderr |-> EncodeOutput(se, m2)]

Return ==
    /\ pc = "return"
    /\ \E m1 \in Mtimes, m2 \in Mtimes :
          result' = <<ResultOf(returncode[1], stdout, stderr, m1, m2)>>
    /\ pc' = "returned"
    /\ UNCHANGED <<exc, mb, returncode, input, outChunks, errChunks, stdout, stderr>>
    /\ UNCHANGED <<childVars, launchVars, planVars, pipeIn, pipeOut, pipeErr, sent, faults>>

\* --------------------------------------------------------------- the child
\* read(0): take what the pipe holds, or see end-of-input once the parent
\* has closed its end
ChildRead ==
    /\ childState = "running"
    /\ childReads
    /\ ~childEOF
    /\ \/ /\ pipeIn # <<>>
          /\ childIn' = childIn \o pipeIn
          /\ pipeIn' = <<>>
          /\ childEOF' = FALSE
       \/ /\ pipeIn = <<>>
          /\ ~mb.stdin
          /\ childEOF' = TRUE
          /\ UNCHANGED <<childIn, pipeIn>>
    /\ UNCHANGED <<childState, outPos, errPos, exitStatus>>
    /\ UNCHANGED <<mainVars, launchVars, planVars, pipeOut, pipeErr, sent, faults>>

\* write(1): blocks while the pipe is full
ChildWriteStdout ==
    /\ childState = "running"
    /\ outPos < Len(outData)
    /\ Len(pipeOut) < PipeCap
    /\ pipeOut' = Append(pipeOut, outData[outPos + 1])
    /\ outPos' = outPos + 1
    /\ UNCHANGED <<childState, childIn, childEOF, errPos, exitStatus>>
    /\ UNCHANGED <<mainVars, launchVars, planVars, pipeIn, pipeErr, sent, faults>>

\* write(2)
ChildWriteStderr ==
    /\ childState = "running"
    /\ errPos < Len(errData)
    /\ Len(pipeErr) < PipeCap
    /\ pipeErr' = Append(pipeErr, errData[errPos + 1])
    /\ errPos' = errPos + 1
    /\ UNCHANGED <<childState, childIn, childEOF, outPos, exitStatus>>
    /\ UNCHANGED <<mainVars, launchVars, planVars, pipeIn, pipeOut, sent, faults>>

\* exit(code): once its output is written and, if it reads its input, the
\* input has ended.  Its pipe ends close; unread input is discarded.
ChildExit ==
    /\ childState = "running"
    /\ outPos = Len(outData)
    /\ errPos = Len(errData)
    /\ childEOF \/ ~childReads
    /\ \E code \in ExitCodes : exitStatus' = <<code>>
    /\ childState' = "zombie"
    /\ pipeIn' = <<>>
    /\ UNCHANGED <<childIn, childEOF, outPos, errPos>>
    /\ UNCHANGED <<mainVars, launchVars, planVars, pipeOut, pipeErr, sent, faults>>

\* ------------------------------------------------------------ specification
main ==
    \/ PopenKeyError \/ PopenOSError \/ Popen
    \/ EncodeError \/ CommunicateStart
    \/ CommWrite \/ CommBrokenPipe \/ CommReadStdout \/ CommReadStderr
    \/ CommReadError \/ CommWait
    \/ CloseStdin \/ Wait \/ ReadStdout \/ ReadStderr \/ ReadError
    \/ Return

child == ChildRead \/ ChildWriteStdout \/ ChildWriteStderr \/ ChildExit

Next == main \/ child

Spec == Init /\ [][Next]_vars

\* the operating system schedules both processes
FairSpec == Spec /\ WF_vars(main) /\ WF_vars(child)

\* ----------------------------------------------- decoding a returned field
B64DecodeGroup(q) ==
    LET b1 == q[1] * 4 + (q[2] \div 16)
        b2 == (q[2] % 16) * 16 + (q[3] \div 4)
        b3 == (q[3] % 4) * 64 + q[4]
    IN  IF q[3] = B64Pad THEN <<b1>>
        ELSE IF q[4] = B64Pad THEN <<b1, b2>>
        ELSE <<b1, b2, b3>>

RECURSIVE B64Decode(_)
B64Decode(text) ==
    IF Len(text) < 4 THEN <<>>
    ELSE B64DecodeGroup(SubSeq(text, 1, 4)) \o B64Decode(SubSeq(text, 5, Len(text)))

Invalid == <<-1>>

\* gunzip: check the magic, the method, the block header, the checksum and
\* the length; give back the literal bytes
Gunzip(z) ==
    IF Len(z) < 23 THEN Invalid
    ELSE LET n == z[12]
             data == SubSeq(z, 16, 15 + n)
         IN  IF /\ Len(z) = 23 + n
                /\ SubSeq(z, 1, 4) = <<31, 139, 8, 0>>
                /\ z[11] = 1
                /\ z[14] = 255 - n
                /\ z[16 + n] = Checksum(data)
                /\ z[20 + n] = n
             THEN data
             ELSE Invalid

Decoded(field) == Gunzip(B64Decode(field))

Left == {"returned", "raised"}

IsPrefix(s, t) == Len(s) <= Len(t) /\ s = SubSeq(t, 1, Len(s))

AllClosed == ~mb.stdin /\ ~mb.stdout /\ ~mb.stderr

\* ------------------------------------------------------------------ claims

\* C1: whenever main returns, with or without "stdin" in the event,
\* base64-decoding and gunzipping result["stdout"] gives exactly the bytes
\* the child wrote to its standard output.
C1_StdoutRoundTrip ==
    pc = "returned" => Decoded(result[1].stdout) = outData

\* C2: main never blocks for ever: in every fair run it eventually leaves,
\* by returning or by raising, also when the child's output is larger than
\* a pipe buffer.
C2_MainLeaves == <>(pc \in Left)

\* C3: at most one process is ever started, and when main returns exactly
\* one was started, it has exited, and it has been reaped (its exit status
\* is in mb.returncode).
C3_OneChildReaped ==
    /\ spawned <= 1
    /\ pc = "returned" =>
          /\ spawned = 1
          /\ childState = "reaped"
          /\ exitStatus # <<>>
          /\ returncode = exitStatus

C3_Witness ==
    pc = "returned" /\ spawned = 1 /\ childState = "reaped" /\ "stdin" \notin DOMAIN event

\* C4: when main returns, result["code"] is the status the child exited
\* with, whatever that status is; a child that exits non-zero still gets a
\* result.
C4_CodeIsExitStatus ==
    pc = "returned" => result[1].code = exitStatus[1]

C4_Witness ==
    pc = "returned" /\ exitStatus = <<137>> /\ result[1].code = 137

Utf8Table(c) ==
    CASE c = 65 -> <<65>>
      [] c = 233 -> <<195, 169>>
      [] c = 8364 -> <<226, 130, 172>>

RECURSIVE TableBytes(_)
TableBytes(s) == IF s = <<>> THEN <<>> ELSE Utf8Table(Head(s)) \o TableBytes(Tail(s))

ExpectedInput ==
    IF "stdin" \in DOMAIN event /\ (\A i \in 1..Len(event.stdin) : event.stdin[i] # 55296)
    THEN TableBytes(event.stdin)
    ELSE <<>>

C7_ChildEnv ==
    childState # "none" =>
        /\ <<"MEMORYBOX_LAMBDA_MODE", "true">> \in childEnv
        /\ <<"MEMORYBOX_CONFIG", event.config>> \in childEnv
        /\ Cardinality(childEnv) = 2
        /\ childEnv \cap OsEnviron = {}

C7_Witness ==
    childState = "running" /\ event.config = "c2" /\ <<"MEMORYBOX_CONFIG", "c2">> \in childEnv

\* C8 as stated: a returned record has all three fields, each a real
\* value; a call that raises leaves no record; and main returns only when
\* no infrastructure failure (spawn failure, broken pipe, unencodable
\* stdin, missing key, failed read) has occurred.
FullRecord ==
    /\ DOMAIN result[1] = {"code", "stdout", "stderr"}
    /\ result[1].code \in ExitCodes
    /\ Decoded(result[1].stdout) # Invalid
    /\ Decoded(result[1].stderr) # Invalid

C9_Released ==
    (pc \in Left /\ childState # "none") => (childState = "reaped" /\ AllClosed)

\* C10: whenever main returns, in either branch, result["stderr"] decodes
\* to the bytes the child wrote to standard error, and not to what it
\* wrote to standard output when the two differ.
C10_StderrLabelled ==
    pc = "returned" =>
        /\ Decoded(result[1].stderr) = errData
        /\ outData # errData => Decoded(result[1].stderr) # outData

====
